---- MODULE Spec2Model ----
(***************************************************************************)
(* Model of supermercado.py: the products loader, the four aggregations    *)
(* and generar_informe_completo.                                           *)
(*                                                                         *)
(* A text is a sequence of characters (one-character strings); fixed text  *)
(* that is never parsed, such as a header cell or the wording of a report  *)
(* line, is written as a single symbol.  A file is a record [exists,       *)
(* rows]; rows is what csv.reader yields for it, header included (the      *)
(* empty sequence is the zero-byte file), each row a sequence of texts.    *)
(* A Python float is modelled by an integer: the numeric literals drawn    *)
(* as inputs are integer-valued, for which double arithmetic is exact.     *)
(* A dict is the sequence of its entries in insertion order.               *)
(***************************************************************************)
EXTENDS Integers, Sequences, FiniteSets, TLC

VARIABLES productos_csv, items_csv, ventas_csv, informe, informe_io,
          pc, runs, productos_data, res_caro, valor_bodega, res_ingresos,
          ventas_periodo, retorno, stderr, stdout

vars == <<productos_csv, items_csv, ventas_csv, informe, informe_io,
          pc, runs, productos_data, res_caro, valor_bodega, res_ingresos,
          ventas_periodo, retorno, stderr, stdout>>

(* ----------------------------- bounds ---------------------------------- *)
MaxProdRows == 3
MaxItemRows == 3
MaxVentaRows == 2
MaxRuns == 2

(* ------------------------ configuration -------------------------------- *)
MES_REPORTE == 10
ANIO_REPORTE == 2010
INFORME_FILE == <<"i","n","f","o","r","m","e",".","t","x","t">>

(* --------------------------- texts ------------------------------------- *)
Digits == {"0","1","2","3","4","5","6","7","8","9"}

DigitVal(c) ==
  CASE c = "0" -> 0 [] c = "1" -> 1 [] c = "2" -> 2 [] c = "3" -> 3
    [] c = "4" -> 4 [] c = "5" -> 5 [] c = "6" -> 6 [] c = "7" -> 7
    [] c = "8" -> 8 [] c = "9" -> 9

DigitChar(n) ==
  CASE n = 0 -> "0" [] n = 1 -> "1" [] n = 2 -> "2" [] n = 3 -> "3"
    [] n = 4 -> "4" [] n = 5 -> "5" [] n = 6 -> "6" [] n = 7 -> "7"
    [] n = 8 -> "8" [] n = 9 -> "9"

IsDigits(s) == Len(s) > 0 /\ \A i \in 1..Len(s) : s[i] \in Digits

RECURSIVE NatOf(_)
NatOf(s) ==
  IF s = <<>> THEN 0
  ELSE 10 * NatOf(SubSeq(s, 1, Len(s) - 1)) + DigitVal(s[Len(s)])

Contains(s, c) == \E i \in 1..Len(s) : s[i] = c

(* text before / after the first occurrence of c (c must occur in s) *)
FirstPos(s, c) == CHOOSE i \in 1..Len(s) : s[i] = c /\ \A j \in 1..(i-1) : s[j] # c
Before(s, c) == SubSeq(s, 1, FirstPos(s, c) - 1)
After(s, c) == SubSeq(s, FirstPos(s, c) + 1, Len(s))

(* str.split(c) *)
RECURSIVE Split(_, _)
Split(s, c) ==
  IF Contains(s, c) THEN <<Before(s, c)>> \o Split(After(s, c), c)
  ELSE <<s>>

(* str.strip() *)
RECURSIVE LStrip(_)
LStrip(s) == IF s # <<>> /\ s[1] = " " THEN LStrip(Tail(s)) ELSE s
RECURSIVE RStrip(_)
RStrip(s) ==
  IF s # <<>> /\ s[Len(s)] = " " THEN RStrip(SubSeq(s, 1, Len(s) - 1)) ELSE s
Strip(s) == RStrip(LStrip(s))

(* int(s): optional sign, then one or more digits; anything else ValueError *)
Unsigned(s) == IF s # <<>> /\ s[1] \in {"+", "-"} THEN Tail(s) ELSE s
Sign(s) == IF s # <<>> /\ s[1] = "-" THEN -1 ELSE 1
ParseInt(s) ==
  IF IsDigits(Unsigned(s))
  THEN [ok |-> TRUE, val |-> Sign(s) * NatOf(Unsigned(s))]
  ELSE [ok |-> FALSE, val |-> 0]

(* float(s) on the modelled literals: optional sign, digits, and optionally *)
(* a point followed by zeros ("2.0"); other texts raise ValueError.         *)
ParseFloat(s) ==
  LET u == Unsigned(s) IN
  IF Contains(u, ".")
  THEN IF /\ IsDigits(Before(u, "."))
          /\ \A i \in 1..Len(After(u, ".")) : After(u, ".")[i] = "0"
       THEN [ok |-> TRUE, val |-> Sign(s) * NatOf(Before(u, "."))]
       ELSE [ok |-> FALSE, val |-> 0]
  ELSE ParseInt(s)

(* format(v, ",.2f") for an integer-valued v *)
RECURSIVE DigitsOf(_)
DigitsOf(n) ==
  IF n < 10 THEN <<DigitChar(n)>>
  ELSE DigitsOf(n \div 10) \o <<DigitChar(n % 10)>>
Pad3(n) ==
  <<DigitChar(n \div 100), DigitChar((n \div 10) % 10), DigitChar(n % 10)>>
RECURSIVE Grouped(_)
Grouped(n) ==
  IF n < 1000 THEN DigitsOf(n)
  ELSE Grouped(n \div 1000) \o <<",">> \o Pad3(n % 1000)
FormatMoney(v) ==
  (IF v < 0 THEN <<"-">> ELSE <<>>)
    \o Grouped(IF v < 0 THEN -v ELSE v) \o <<".", "0", "0">>
(* format(n, "02d") for n >= 0 *)
Format02d(n) == IF n < 10 THEN <<"0">> \o DigitsOf(n) ELSE DigitsOf(n)

(* "sep".join(lines) *)
RECURSIVE Join(_, _)
Join(lines, sep) ==
  IF lines = <<>> THEN <<>>
  ELSE IF Len(lines) = 1 THEN lines[1]
  ELSE lines[1] \o sep \o Join(Tail(lines), sep)

(* ------------------- datetime.strptime ---------------------------------- *)
(* the directive patterns of _strptime: %Y \d\d\d\d,                        *)
(* %m 1[0-2]|0[1-9]|[1-9], %d 3[01]|[12]\d|0[1-9]|[1-9]| [1-9]              *)
MatchY(p) == Len(p) = 4 /\ IsDigits(p)
MatchM(p) == IsDigits(p) /\ Len(p) <= 2 /\ NatOf(p) \in 1..12
MatchD(p) ==
  \/ IsDigits(p) /\ Len(p) <= 2 /\ NatOf(p) \in 1..31
  \/ Len(p) = 2 /\ p[1] = " " /\ p[2] \in (Digits \ {"0"})
DayVal(p) == NatOf(LStrip(p))

IsLeap(y) == y % 4 = 0 /\ (y % 100 # 0 \/ y % 400 = 0)
DaysInMonth(m, y) ==
  IF m = 2 THEN (IF IsLeap(y) THEN 29 ELSE 28)
  ELSE IF m \in {4, 6, 9, 11} THEN 30 ELSE 31

NoDate == [ok |-> FALSE, day |-> 0, month |-> 0, year |-> 0]
(* datetime(y, m, d): ValueError for year 0 or a day past the month's end *)
MkDate(y, m, d) ==
  IF y >= 1 /\ d <= DaysInMonth(m, y)
  THEN [ok |-> TRUE, day |-> d, month |-> m, year |-> y]
  ELSE NoDate

(* strptime(s, "%d<sep>%m<sep>%Y") *)
StrptimeDMY(s, sep) ==
  LET parts == Split(s, sep) IN
  IF Len(parts) = 3 /\ MatchD(parts[1]) /\ MatchM(parts[2]) /\ MatchY(parts[3])
  THEN MkDate(NatOf(parts[3]), NatOf(parts[2]), DayVal(parts[1]))
  ELSE NoDate

(* strptime(s, "%Y-%m-%d") *)
StrptimeYMD(s) ==
  LET parts == Split(s, "-") IN
  IF Len(parts) = 3 /\ MatchY(parts[1]) /\ MatchM(parts[2]) /\ MatchD(parts[3])
  THEN MkDate(NatOf(parts[1]), NatOf(parts[2]), DayVal(parts[3]))
  ELSE NoDate

(* the date branch of totalVentasPeriodo: "/" first, then "-" with the ISO  *)
(* order tried before day-month-year, else the row is passed over           *)
ParseFecha(fecha_str) ==
  IF Contains(fecha_str, "/") THEN StrptimeDMY(fecha_str, "/")
  ELSE IF Contains(fecha_str, "-")
       THEN IF StrptimeYMD(fecha_str).ok THEN StrptimeYMD(fecha_str)
            ELSE StrptimeDMY(fecha_str, "-")
       ELSE NoDate

(* ------------------------------ dict ----------------------------------- *)
DictKeys(d) == {d[i].id : i \in 1..Len(d)}
DictPos(d, k) == CHOOSE i \in 1..Len(d) : d[i].id = k
DictGet(d, k) == d[DictPos(d, k)]
(* d[k] = e: a key already present keeps its position *)
DictSet(d, e) ==
  IF e.id \in DictKeys(d)
  THEN [d EXCEPT ![DictPos(d, e.id)] = e]
  ELSE Append(d, e)

(* max(d, key=f) over the keys f(d[1]), f(d[2]), ...: the first position, *)
(* in iteration order, holding the largest key                             *)
RECURSIVE MaxPos(_, _, _)
MaxPos(keys, i, best) ==
  IF i > Len(keys) THEN best
  ELSE MaxPos(keys, i + 1, IF keys[i] > keys[best] THEN i ELSE best)

(* --------------------------- messages ---------------------------------- *)
NA == <<"N", "/", "A">>
ERROR == <<"E", "R", "R", "O", "R">>
MsgFilaInvalida == "Advertencia: Fila de producto invalida o incompleta"
MsgNoProductos == "Error: No se encontro 'productos.csv'."
MsgNoItems == "Error: No se encontro 'items.csv'."
MsgErrorItems == "Error al procesar items.csv"
MsgNoVentas == "Error: No se encontro 'ventas.csv'."
MsgErrorVentas == "Error al procesar ventas.csv"
Log(m, row) == [msg |-> m, arg |-> row]

(* -------------------------- _cargar_productos -------------------------- *)
(* one iteration of the for loop over the data rows *)
CargarFila(acc, row) ==
  IF Len(row) >= 4
  THEN IF ParseFloat(row[3]).ok /\ ParseInt(row[4]).ok
       THEN [acc EXCEPT !.productos =
               DictSet(@, [id |-> row[1], nombre |-> row[2],
                           precio |-> ParseFloat(row[3]).val,
                           cant |-> ParseInt(row[4]).val])]
       ELSE [acc EXCEPT !.log = Append(@, Log(MsgFilaInvalida, row))]
  ELSE acc

RECURSIVE CargarFilas(_, _, _)
CargarFilas(rows, i, acc) ==
  IF i > Len(rows) THEN acc
  ELSE CargarFilas(rows, i + 1, CargarFila(acc, rows[i]))

(* raised: the exception that leaves the function ("" when it returns) *)
_cargar_productos(file) ==
  IF ~file.exists
  THEN [raised |-> "", productos |-> <<>>, log |-> <<Log(MsgNoProductos, <<>>)>>]
  ELSE IF file.rows = <<>>
  THEN [raised |-> "StopIteration", productos |-> <<>>, log |-> <<>>]
  ELSE [raised |-> ""] @@ CargarFilas(file.rows, 2, [productos |-> <<>>, log |-> <<>>])

(* --------------------------- productoMasCaro --------------------------- *)
Precios(productos) == [i \in 1..Len(productos) |-> productos[i].precio]
MsgMasCaro(nombre, precio) ==
  <<"El producto mas caro en el inventario es **">> \o nombre
    \o <<"** con un precio de $">> \o FormatMoney(precio) \o <<".">>

(* variant: among equal prices the last entry wins *)
RECURSIVE MaxPosUltimo(_, _, _)
MaxPosUltimo(keys, i, best) ==
  IF i > Len(keys) THEN best
  ELSE MaxPosUltimo(keys, i + 1, IF keys[i] >= keys[best] THEN i ELSE best)
productoMasCaro_UltimoMax(productos) ==
  IF productos = <<>>
  THEN [nombre |-> NA, precio |-> 0, out |-> <<>>]
  ELSE LET e == productos[MaxPosUltimo(Precios(productos), 1, 1)] IN
       [nombre |-> e.nombre, precio |-> e.precio,
        out |-> <<MsgMasCaro(e.nombre, e.precio)>>]

productoMasCaro(productos) ==
  IF productos = <<>>
  THEN [nombre |-> NA, precio |-> 0, out |-> <<>>]
  ELSE LET e == productos[MaxPos(Precios(productos), 1, 1)] IN
       [nombre |-> e.nombre, precio |-> e.precio,
        out |-> <<MsgMasCaro(e.nombre, e.precio)>>]

(* --------------------------- valorTotalBodega -------------------------- *)
RECURSIVE SumBodega(_, _, _)
SumBodega(productos, i, total) ==
  IF i > Len(productos) THEN total
  ELSE SumBodega(productos, i + 1,
                 total + productos[i].precio * productos[i].cant)

(* variant: the first entry is left out of the sum *)
valorTotalBodega_SinPrimero(productos) ==
  IF productos = <<>> THEN 0 ELSE SumBodega(productos, 2, 0)

valorTotalBodega(productos) ==
  IF productos = <<>> THEN 0 ELSE SumBodega(productos, 1, 0)

(* ------------------------ productoConMasIngresos ----------------------- *)
(* variant: a row's revenue replaces the product's total instead of adding *)
(* to it                                                                   *)
IngresoFila_SinAcumular(productos, acc, row) ==
  IF acc.raised # "" \/ Len(row) < 3 THEN acc
  ELSE IF ~ParseInt(row[3]).ok
  THEN [acc EXCEPT !.raised = "ValueError", !.arg = <<row[3]>>]
  ELSE IF row[2] \in DictKeys(productos)
  THEN LET ingreso == DictGet(productos, row[2]).precio * ParseInt(row[3]).val
       IN [acc EXCEPT !.ingresos =
             DictSet(@, [id |-> row[2], ingreso |-> ingreso])]
  ELSE acc

(* one iteration of the for loop; int(row[2]) is evaluated before the id is *)
(* looked up, and its ValueError leaves the loop                            *)
IngresoFila(productos, acc, row) ==
  IF acc.raised # "" \/ Len(row) < 3 THEN acc
  ELSE IF ~ParseInt(row[3]).ok
  THEN [acc EXCEPT !.raised = "ValueError", !.arg = <<row[3]>>]
  ELSE IF row[2] \in DictKeys(productos)
  THEN LET ingreso == DictGet(productos, row[2]).precio * ParseInt(row[3]).val
           previo == IF row[2] \in DictKeys(acc.ingresos)
                     THEN DictGet(acc.ingresos, row[2]).ingreso ELSE 0
       IN [acc EXCEPT !.ingresos =
             DictSet(@, [id |-> row[2], ingreso |-> previo + ingreso])]
  ELSE acc

RECURSIVE IngresoFilas(_, _, _, _)
IngresoFilas(productos, rows, i, acc) ==
  IF i > Len(rows) THEN acc
  ELSE IngresoFilas(productos, rows, i + 1, IngresoFila(productos, acc, rows[i]))

Ingresos(ingresos) == [i \in 1..Len(ingresos) |-> ingresos[i].ingreso]

(* lines 73-88: the scan of an opened, non-empty file and what follows it *)
ScanItems(productos, file) ==
  LET acc == IngresoFilas(productos, file.rows, 2,
                          [raised |-> "", arg |-> <<>>, ingresos |-> <<>>])
  IN IF acc.raised # ""
     THEN [nombre |-> ERROR, ingreso |-> 0, ret |-> 94,
           log |-> <<Log(MsgErrorItems, acc.arg)>>]
     ELSE IF acc.ingresos = <<>>
     THEN [nombre |-> NA, ingreso |-> 0, ret |-> 82, log |-> <<>>]
     ELSE LET m == acc.ingresos[MaxPos(Ingresos(acc.ingresos), 1, 1)] IN
          [nombre |-> DictGet(productos, m.id).nombre,
           ingreso |-> m.ingreso, ret |-> 88, log |-> <<>>]

(* variant: a missing items.csv is reported like a scan that found nothing *)
productoConMasIngresos_SinError(productos, file) ==
  IF productos = <<>>
  THEN [nombre |-> NA, ingreso |-> 0, ret |-> 66, log |-> <<>>]
  ELSE IF ~file.exists
  THEN [nombre |-> NA, ingreso |-> 0, ret |-> 82, log |-> <<>>]
  ELSE IF file.rows = <<>>
  THEN [nombre |-> ERROR, ingreso |-> 0, ret |-> 94,
        log |-> <<Log(MsgErrorItems, <<>>)>>]
  ELSE ScanItems(productos, file)

(* ret: the line of the return statement taken *)
productoConMasIngresos(productos, file) ==
  IF productos = <<>>
  THEN [nombre |-> NA, ingreso |-> 0, ret |-> 66, log |-> <<>>]
  ELSE IF ~file.exists
  THEN [nombre |-> ERROR, ingreso |-> 0, ret |-> 91,
        log |-> <<Log(MsgNoItems, <<>>)>>]
  ELSE IF file.rows = <<>>
  THEN [nombre |-> ERROR, ingreso |-> 0, ret |-> 94,
        log |-> <<Log(MsgErrorItems, <<>>)>>]
  ELSE ScanItems(productos, file)

(* -------------------------- totalVentasPeriodo ------------------------- *)
(* variant: the year of the date is not compared *)
VentaFila_SinAnio(total, row, mes, anio) ==
  IF Len(row) < 3 THEN total
  ELSE LET fecha_str == Strip(row[2])
           monto_venta == ParseFloat(row[3])
           fecha_obj == ParseFecha(fecha_str)
       IN IF ~monto_venta.ok THEN total
          ELSE IF ~fecha_obj.ok THEN total
          ELSE IF fecha_obj.month = mes
          THEN total + monto_venta.val
          ELSE total

(* one iteration of the for loop: every ValueError is caught inside it *)
VentaFila(total, row, mes, anio) ==
  IF Len(row) < 3 THEN total
  ELSE LET fecha_str == Strip(row[2])
           monto_venta == ParseFloat(row[3])
           fecha_obj == ParseFecha(fecha_str)
       IN IF ~monto_venta.ok THEN total
          ELSE IF ~fecha_obj.ok THEN total
          ELSE IF fecha_obj.month = mes /\ fecha_obj.year = anio
          THEN total + monto_venta.val
          ELSE total

RECURSIVE VentaFilas(_, _, _, _, _)
VentaFilas(rows, i, total, mes, anio) ==
  IF i > Len(rows) THEN total
  ELSE VentaFilas(rows, i + 1, VentaFila(total, rows[i], mes, anio), mes, anio)

totalVentasPeriodo(file, mes, anio) ==
  IF ~file.exists
  THEN [total |-> 0, log |-> <<Log(MsgNoVentas, <<>>)>>]
  ELSE IF file.rows = <<>>
  THEN [total |-> 0, log |-> <<Log(MsgErrorVentas, <<>>)>>]
  ELSE [total |-> VentaFilas(file.rows, 2, 0, mes, anio), log |-> <<>>]

(* ----------------------- the report's content -------------------------- *)
LineasInforme(nombre_caro, valor, nombre_ingresos, ventas) ==
  << <<"--- INFORME DE GESTION SUPERMERCADO SOOS ---">>,
     <<"\n", "============================================", "\n">>,
     <<"El producto mas caro es **">> \o nombre_caro \o <<"**.">>,
     <<"El valor total de la bodega es de **$">> \o FormatMoney(valor)
        \o <<"**.">>,
     <<"El producto con mas ingresos es **">> \o nombre_ingresos \o <<"**.">>,
     <<"En el periodo de **">> \o Format02d(MES_REPORTE) \o <<"/">>
        \o DigitsOf(ANIO_REPORTE) \o <<"**, el total de ventas es de **$">>
        \o FormatMoney(ventas) \o <<"**.">>,
     <<"\n", "============================================", "\n">> >>

MsgInicio == <<"--- Iniciando el analisis de datos ---">>
MsgExito ==
  <<"Informe generado con exito. Se ha creado el archivo '">>
    \o INFORME_FILE \o <<"'.">>
MsgErrorEscritura == <<"Error al escribir el archivo de informe">>

(* ------------------------------ inputs --------------------------------- *)
Missing == [exists |-> FALSE, rows |-> <<>>]
File(rows) == [exists |-> TRUE, rows |-> rows]
SeqsUpTo(S, n) == UNION {[1..k -> S] : k \in 0..n}

P1 == <<"P", "1">>
P2 == <<"P", "2">>
P3 == <<"P", "3">>
P4 == <<"P", "4">>
P5 == <<"P", "5">>
P9 == <<"P", "9">>
Pan == <<"P", "a", "n">>
Leche == <<"L", "e", "c", "h", "e">>
Queso == <<"Q", "u", "e", "s", "o">>
Sal == <<"S", "a", "l">>
Te == <<"T", "e">>
Miel == <<"M", "i", "e", "l">>
Abc == <<"a", "b", "c">>

HdrProductos == << <<"id">>, <<"nombre">>, <<"precio">>, <<"cantidad">> >>
ProdRows ==
  { <<P1, Pan, <<"1", "0">>, <<"2">> >>,
    <<P2, Leche, <<"2", "5">>, <<"1">> >>,
    <<P2, Queso, <<"1", "0">>, <<"3">> >>,
    <<P3, Sal, <<"2", "5", ".", "0">>, <<"4">> >>,
    <<P4, Te, Abc, <<"1">> >>,
    <<P1, Pan, <<"1", "0">>, <<"2", ".", "0">> >>,
    <<P5, Miel, <<"7">> >> }
ProductFiles ==
  {Missing, File(<<>>)}
    \cup {File(<<HdrProductos>> \o r) : r \in SeqsUpTo(ProdRows, MaxProdRows)}

HdrItems == << <<"venta">>, <<"producto">>, <<"cantidad">> >>
ItemRows ==
  { << <<"1">>, P1, <<"3">> >>,
    << <<"2">>, P2, <<"1">> >>,
    << <<"3">>, P2, <<"2">> >>,
    << <<"4">>, P9, <<"5">> >>,
    << <<"5">>, P9, Abc >>,
    << <<"6">>, P1, Abc >>,
    << <<"7">>, P1 >> }
ItemFiles ==
  {Missing, File(<<>>)}
    \cup {File(<<HdrItems>> \o r) : r \in SeqsUpTo(ItemRows, MaxItemRows)}
(* the mappings the revenue scan is run against: empty, distinct prices, *)
(* equal prices                                                          *)
ItemProductFiles ==
  { Missing,
    File(<<HdrProductos, <<P1, Pan, <<"1", "0">>, <<"2">> >>,
                         <<P2, Leche, <<"2", "5">>, <<"1">> >> >>),
    File(<<HdrProductos, <<P2, Queso, <<"1", "0">>, <<"3">> >>,
                         <<P1, Pan, <<"1", "0">>, <<"2">> >> >>) }

HdrVentas == << <<"id">>, <<"fecha">>, <<"venta">> >>
F_slash == <<"1", "5", "/", "1", "0", "/", "2", "0", "1", "0">>
F_iso == <<"2", "0", "1", "0", "-", "1", "0", "-", "1", "5">>
F_dash == <<"1", "5", "-", "1", "0", "-", "2", "0", "1", "0">>
F_otro_anio == <<"1", "5", "/", "1", "0", "/", "2", "0", "1", "1">>
F_otro_mes == <<"0", "1", "-", "1", "1", "-", "2", "0", "1", "0">>
F_espacios == <<" ", "5", "/", "1", "0", "/", "2", "0", "1", "0", " ">>
F_sin_sep == <<"2", "0", "1", "0", "1", "0", "1", "5">>
F_dia_32 == <<"3", "2", "/", "1", "0", "/", "2", "0", "1", "0">>
F_iso_barras == <<"2", "0", "1", "0", "/", "1", "0", "/", "1", "5">>
Fechas ==
  {F_slash, F_iso, F_dash, F_otro_anio, F_otro_mes, F_espacios, F_sin_sep,
   F_dia_32, F_iso_barras}
Montos == {<<"1", "0", "0">>, <<"7">>}
VentaRows ==
  {<< <<"1">>, f, m >> : f \in Fechas, m \in Montos}
    \cup { << <<"2">>, F_slash, Abc >>, << <<"3">>, F_iso >> }
VentaFiles ==
  {Missing, File(<<>>)}
    \cup {File(<<HdrVentas>> \o r) : r \in SeqsUpTo(VentaRows, MaxVentaRows)}

(* one file of each condition, for the runs of the whole program *)
SampleProductFiles ==
  { Missing, File(<<>>), File(<<HdrProductos>>),
    File(<<HdrProductos, <<P1, Pan, <<"1", "0">>, <<"2">> >>,
                         <<P2, Leche, <<"2", "5">>, <<"1">> >> >>),
    File(<<HdrProductos, <<P4, Te, Abc, <<"1">> >>,
                         <<P1, Pan, <<"1", "0">>, <<"2">> >>,
                         <<P5, Miel, <<"7">> >> >>) }
SampleItemFiles ==
  { Missing, File(<<>>), File(<<HdrItems>>),
    File(<<HdrItems, << <<"1">>, P1, <<"3">> >>, << <<"2">>, P2, <<"1">> >> >>),
    File(<<HdrItems, << <<"6">>, P1, Abc >>, << <<"1">>, P1, <<"3">> >>,
                     << <<"7">>, P1 >> >>) }
SampleVentaFiles ==
  { Missing, File(<<>>), File(<<HdrVentas>>),
    File(<<HdrVentas, << <<"1">>, F_slash, <<"1", "0", "0">> >>,
                      << <<"1">>, F_otro_anio, <<"7">> >> >>),
    File(<<HdrVentas, << <<"2">>, F_slash, Abc >>, << <<"1">>, F_iso, <<"7">> >>,
                      << <<"3">>, F_iso >> >>) }

NoInforme == [exists |-> FALSE, content |-> <<>>]
InformeAnterior == [exists |-> TRUE, content |-> <<"informe anterior">>]

(* --------------------------- the program ------------------------------- *)
NoCaro == [nombre |-> <<>>, precio |-> 0]
NoIngresos == [nombre |-> <<>>, ingreso |-> 0, ret |-> 0]

Locals ==
  /\ pc = "cargar"
  /\ runs = 1
  /\ productos_data = <<>>
  /\ res_caro = NoCaro
  /\ valor_bodega = 0
  /\ res_ingresos = NoIngresos
  /\ ventas_periodo = 0
  /\ retorno = <<>>
  /\ stderr = <<>>
  /\ stdout = <<>>

Init ==
  /\ productos_csv \in SampleProductFiles
  /\ items_csv \in SampleItemFiles
  /\ ventas_csv \in SampleVentaFiles
  /\ informe \in {NoInforme, InformeAnterior}
  /\ informe_io \in {"ok", "open_fails", "write_fails"}
  /\ Locals

InitProductos ==
  /\ productos_csv \in ProductFiles
  /\ items_csv = Missing
  /\ ventas_csv = Missing
  /\ informe = NoInforme
  /\ informe_io = "ok"
  /\ Locals

InitItems ==
  /\ productos_csv \in ItemProductFiles
  /\ items_csv \in ItemFiles
  /\ ventas_csv = Missing
  /\ informe = NoInforme
  /\ informe_io = "ok"
  /\ Locals

InitVentas ==
  /\ productos_csv = Missing
  /\ items_csv = Missing
  /\ ventas_csv \in VentaFiles
  /\ informe = NoInforme
  /\ informe_io = "ok"
  /\ Locals

Inputs == <<productos_csv, items_csv, ventas_csv, informe_io>>

(* lines 140-143: the StopIteration of an empty productos.csv is not caught *)
(* and ends the program                                                     *)
Cargar ==
  /\ pc = "cargar"
  /\ LET r == _cargar_productos(productos_csv) IN
       /\ stdout' = Append(stdout, MsgInicio)
       /\ IF r.raised # ""
          THEN /\ pc' = "crashed"
               /\ stderr' = Append(stderr \o r.log, Log(r.raised, <<>>))
               /\ UNCHANGED productos_data
          ELSE /\ pc' = "masCaro"
               /\ stderr' = stderr \o r.log
               /\ productos_data' = r.productos
  /\ UNCHANGED <<Inputs, informe, runs, res_caro, valor_bodega, res_ingresos,
                 ventas_periodo, retorno>>

(* line 146 *)
MasCaro ==
  /\ pc = "masCaro"
  /\ LET r == productoMasCaro(productos_data) IN
       /\ res_caro' = [nombre |-> r.nombre, precio |-> r.precio]
       /\ stdout' = stdout \o r.out
  /\ pc' = "bodega"
  /\ UNCHANGED <<Inputs, informe, runs, productos_data, valor_bodega,
                 res_ingresos, ventas_periodo, retorno, stderr>>

(* line 147 *)
Bodega ==
  /\ pc = "bodega"
  /\ valor_bodega' = valorTotalBodega(productos_data)
  /\ pc' = "masIngresos"
  /\ UNCHANGED <<Inputs, informe, runs, productos_data, res_caro,
                 res_ingresos, ventas_periodo, retorno, stderr, stdout>>

(* line 148 *)
MasIngresos ==
  /\ pc = "masIngresos"
  /\ LET r == productoConMasIngresos(productos_data, items_csv) IN
       /\ res_ingresos' = [nombre |-> r.nombre, ingreso |-> r.ingreso,
                           ret |-> r.ret]
       /\ stderr' = stderr \o r.log
  /\ pc' = "ventasPeriodo"
  /\ UNCHANGED <<Inputs, informe, runs, productos_data, res_caro,
                 valor_bodega, ventas_periodo, retorno, stdout>>

(* line 149 *)
VentasPeriodo ==
  /\ pc = "ventasPeriodo"
  /\ LET r == totalVentasPeriodo(ventas_csv, MES_REPORTE, ANIO_REPORTE) IN
       /\ ventas_periodo' = r.total
       /\ stderr' = stderr \o r.log
  /\ pc' = "escribir"
  /\ UNCHANGED <<Inputs, informe, runs, productos_data, res_caro,
                 valor_bodega, res_ingresos, retorno, stdout>>

(* lines 152-169 and the print of line 173: open(..., 'w') truncates, so a *)
(* write that fails after it leaves the file empty                          *)
ContenidoInforme(nombre_caro, valor, nombre_ingresos, ventas) ==
  Join(LineasInforme(nombre_caro, valor, nombre_ingresos, ventas), <<"\n">>)

Escribir ==
  /\ pc = "escribir"
  /\ LET contenido == ContenidoInforme(res_caro.nombre, valor_bodega,
                                       res_ingresos.nombre, ventas_periodo)
     IN CASE informe_io = "ok" ->
               /\ informe' = [exists |-> TRUE, content |-> contenido]
               /\ retorno' = MsgExito
          [] informe_io = "open_fails" ->
               /\ informe' = informe
               /\ retorno' = MsgErrorEscritura
          [] informe_io = "write_fails" ->
               /\ informe' = [exists |-> TRUE, content |-> <<>>]
               /\ retorno' = MsgErrorEscritura
  /\ stdout' = Append(stdout, retorno')
  /\ pc' = "done"
  /\ UNCHANGED <<Inputs, runs, productos_data, res_caro, valor_bodega,
                 res_ingresos, ventas_periodo, stderr>>

(* the program is run again on the same files *)
Rerun ==
  /\ pc \in {"done", "crashed"}
  /\ runs < MaxRuns
  /\ runs' = runs + 1
  /\ pc' = "cargar"
  /\ productos_data' = <<>>
  /\ res_caro' = NoCaro
  /\ valor_bodega' = 0
  /\ res_ingresos' = NoIngresos
  /\ ventas_periodo' = 0
  /\ retorno' = <<>>
  /\ UNCHANGED <<Inputs, informe, stderr, stdout>>

Next ==
  \/ Cargar
  \/ MasCaro
  \/ Bodega
  \/ MasIngresos
  \/ VentasPeriodo
  \/ Escribir
  \/ Rerun

Spec == Init /\ [][Next]_vars
SpecProductos == InitProductos /\ [][Next]_vars
SpecItems == InitItems /\ [][Next]_vars
SpecVentas == InitVentas /\ [][Next]_vars

TypeOK ==
  /\ pc \in {"cargar", "masCaro", "bodega", "masIngresos", "ventasPeriodo",
             "escribir", "done", "crashed"}
  /\ runs \in 1..MaxRuns
  /\ informe_io \in {"ok", "open_fails", "write_fails"}

(* ======================= properties ==================================== *)
DespuesDeCargar ==
  pc \in {"masCaro", "bodega", "masIngresos", "ventasPeriodo", "escribir", "done"}
DespuesDeMasCaro ==
  pc \in {"bodega", "masIngresos", "ventasPeriodo", "escribir", "done"}
DespuesDeBodega == pc \in {"masIngresos", "ventasPeriodo", "escribir", "done"}
DespuesDeMasIngresos == pc \in {"ventasPeriodo", "escribir", "done"}
DespuesDeVentas == pc \in {"escribir", "done"}

Legible(file) == file.exists /\ file.rows # <<>>
DataRows(file) == IF Legible(file) THEN Tail(file.rows) ELSE <<>>
(* the file with its data rows replaced; a missing or empty file is kept *)
WithRows(file, rows) ==
  IF Legible(file) THEN File(<<file.rows[1]>> \o rows) ELSE file
FilterFile(file, Keep(_)) == WithRows(file, SelectSeq(DataRows(file), Keep))

RECURSIVE SumaSobre(_, _)
SumaSobre(f, S) ==
  IF S = {} THEN 0
  ELSE LET x == CHOOSE y \in S : TRUE IN f[x] + SumaSobre(f, S \ {x})

Resultado(r) == [nombre |-> r.nombre, ingreso |-> r.ingreso]

(* C1: whatever the condition of the three input files (missing, zero     *)
(* bytes, header only, valid and malformed rows), generar_informe_completo *)
(* never ends with an uncaught error: it reaches the step that writes the  *)
(* report and returns a message.                                           *)
C1_SinErrorNoCapturado ==
  /\ pc # "crashed"
  /\ pc = "done" => retorno \in {MsgExito, MsgErrorEscritura}

(* C2, as stated: whenever items.csv is missing productoConMasIngresos     *)
(* returns ("ERROR", 0) for every mapping, the empty one included, and     *)
(* ("N/A", 0) is returned only when the file was read and no revenue was   *)
(* accumulated.                                                            *)
SinIngresos(productos, file) ==
  /\ Legible(file)
  /\ \A i \in 1..Len(DataRows(file)) :
       LET row == DataRows(file)[i] IN
         Len(row) >= 3 => ParseInt(row[3]).ok /\ row[2] \notin DictKeys(productos)
EsNA(r) == r.nombre = NA /\ r.ingreso = 0
EsERROR(r) == r.nombre = ERROR /\ r.ingreso = 0
C2_ErrorParaTodoMapeo ==
  DespuesDeMasIngresos =>
    /\ ~items_csv.exists => EsERROR(res_ingresos)
    /\ EsNA(res_ingresos) => SinIngresos(productos_data, items_csv)

(* C2, amended: whenever items.csv is missing and the mapping is not empty *)
(* the result is ("ERROR", 0); for the empty mapping it is ("N/A", 0),     *)
(* whether or not the file exists; for a non-empty mapping ("N/A", 0) is   *)
(* returned only when the file was read and no revenue was accumulated.    *)
C2_ErrorSiMapeoNoVacio ==
  DespuesDeMasIngresos =>
    /\ (~items_csv.exists /\ productos_data # <<>>) => EsERROR(res_ingresos)
    /\ productos_data = <<>> => EsNA(res_ingresos)
    /\ (EsNA(res_ingresos) /\ productos_data # <<>>)
         => SinIngresos(productos_data, items_csv)
C2_Witness ==
  /\ DespuesDeMasIngresos
  /\ ~items_csv.exists
  /\ productos_data # <<>>
  /\ EsERROR(res_ingresos)

(* C3: in the items scan and in the sales scan a malformed row (too few    *)
(* columns, non-numeric quantity or amount, unparseable date) is skipped   *)
(* and the scan goes on: the result equals the result for the same file    *)
(* with the malformed rows removed.                                        *)
ItemBienFormada(row) == Len(row) >= 3 /\ ParseInt(row[3]).ok
VentaBienFormada(row) ==
  Len(row) >= 3 /\ ParseFloat(row[3]).ok /\ ParseFecha(Strip(row[2])).ok
C3_FilasMalformadasOmitidas ==
  DespuesDeVentas =>
    /\ Resultado(res_ingresos) =
         Resultado(productoConMasIngresos(productos_data,
                                          FilterFile(items_csv, ItemBienFormada)))
    /\ ventas_periodo =
         totalVentasPeriodo(FilterFile(ventas_csv, VentaBienFormada),
                            MES_REPORTE, ANIO_REPORTE).total

(* C4: an item row whose product id is absent from the mapping is ignored, *)
(* whatever the rest of the row contains: the returned (name, revenue)     *)
(* equals the one computed from the file with all such rows removed.       *)
C4_IdsDesconocidosIgnorados ==
  DespuesDeMasIngresos =>
    Resultado(res_ingresos) =
      Resultado(productoConMasIngresos(productos_data,
        FilterFile(items_csv,
          LAMBDA row : ~(Len(row) >= 2 /\ row[2] \notin DictKeys(productos_data)))))

(* C5: every products row with fewer than 4 columns or a non-numeric price *)
(* or quantity is skipped with a warning logged for that row, and the      *)
(* mapping holds exactly the ids of the well-formed rows.                  *)
FilaValida(row) == Len(row) >= 4 /\ ParseFloat(row[3]).ok /\ ParseInt(row[4]).ok
FilasValidas(rows) == {i \in 1..Len(rows) : FilaValida(rows[i])}
C5_AdvertenciaPorFilaOmitida ==
  DespuesDeCargar =>
    LET rows == DataRows(productos_csv) IN
      /\ \A i \in 1..Len(rows) :
           ~FilaValida(rows[i]) =>
             \E k \in 1..Len(stderr) : stderr[k] = Log(MsgFilaInvalida, rows[i])
      /\ DictKeys(productos_data) = {rows[i][1] : i \in FilasValidas(rows)}

(* C6, as stated: valorTotalBodega of the loaded mapping is the sum of     *)
(* price times quantity over its entries, and is the same for every        *)
(* reordering of the file's data rows, also when an id is on several rows. *)
Perms(n) == {f \in [1..n -> 1..n] : \A i, j \in 1..n : f[i] = f[j] => i = j}
Reordered(rows, f) == [i \in 1..Len(rows) |-> rows[f[i]]]
ValorDeArchivo(file) == valorTotalBodega(_cargar_productos(file).productos)
SumaDeEntradas(productos) ==
  SumaSobre([i \in 1..Len(productos) |-> productos[i].precio * productos[i].cant],
            1..Len(productos))
MismoValorReordenado(file, valor) ==
  \A f \in Perms(Len(DataRows(file))) :
    ValorDeArchivo(WithRows(file, Reordered(DataRows(file), f))) = valor
IdsUnicos(file) ==
  \A i, j \in FilasValidas(DataRows(file)) :
    DataRows(file)[i][1] = DataRows(file)[j][1] => i = j
C6_ValorInvarianteAlReordenar ==
  DespuesDeBodega =>
    /\ valor_bodega = SumaDeEntradas(productos_data)
    /\ MismoValorReordenado(productos_csv, valor_bodega)

(* C6, amended: valorTotalBodega of the loaded mapping is the sum of price *)
(* times quantity over its entries, and is the same for every reordering   *)
(* of the data rows of a file in which no id is on more than one           *)
(* well-formed row.                                                        *)
C6_ValorInvarianteSiIdsUnicos ==
  DespuesDeBodega =>
    /\ valor_bodega = SumaDeEntradas(productos_data)
    /\ IdsUnicos(productos_csv) => MismoValorReordenado(productos_csv, valor_bodega)
C6_Witness ==
  /\ DespuesDeBodega
  /\ IdsUnicos(productos_csv)
  /\ Len(productos_data) = 2
  /\ valor_bodega = 45

(* C7: totalVentasPeriodo(mes, anio) is the sum of the amounts of the      *)
(* sales rows whose date, written DD/MM/YYYY, YYYY-MM-DD or DD-MM-YYYY     *)
(* (day and month with or without the leading zero, blanks around the      *)
(* date ignored), is a day of that month and year; the three spellings     *)
(* count alike, another year is excluded, a missing file gives 0.          *)
Escrituras(d, m, y) ==
  LET dd == {Format02d(d), DigitsOf(d)}
      mm == {Format02d(m), DigitsOf(m)}
      yy == DigitsOf(y)
  IN {a \o <<"/">> \o b \o <<"/">> \o yy : a \in dd, b \in mm}
       \cup {yy \o <<"-">> \o b \o <<"-">> \o a : a \in dd, b \in mm}
       \cup {a \o <<"-">> \o b \o <<"-">> \o yy : a \in dd, b \in mm}
VentaDelPeriodo(row, mes, anio) ==
  /\ Len(row) >= 3
  /\ ParseFloat(row[3]).ok
  /\ \E d \in 1..DaysInMonth(mes, anio) : Strip(row[2]) \in Escrituras(d, mes, anio)
SumaDelPeriodo(file, mes, anio) ==
  LET rows == DataRows(file) IN
    SumaSobre([i \in 1..Len(rows) |->
                 IF VentaDelPeriodo(rows[i], mes, anio)
                 THEN ParseFloat(rows[i][3]).val ELSE 0],
              1..Len(rows))
C7_SumaDelPeriodo ==
  DespuesDeVentas =>
    ventas_periodo = SumaDelPeriodo(ventas_csv, MES_REPORTE, ANIO_REPORTE)
C7_Witness ==
  /\ DespuesDeVentas
  /\ \E i, j \in 1..Len(DataRows(ventas_csv)) :
       /\ DataRows(ventas_csv)[i] = << <<"1">>, F_otro_anio, <<"1", "0", "0">> >>
       /\ DataRows(ventas_csv)[j][2] \in {F_iso, F_dash}
       /\ Len(DataRows(ventas_csv)[j]) >= 3
  /\ ventas_periodo = 7

(* C8: productoMasCaro returns the (name, price) of an entry of maximal    *)
(* price; among entries of equal maximal price, the one whose id is first  *)
(* loaded from the products file; ("N/A", 0) for the empty mapping.        *)
PrimeraFila(file, id) ==
  CHOOSE i \in FilasValidas(DataRows(file)) :
    /\ DataRows(file)[i][1] = id
    /\ \A j \in FilasValidas(DataRows(file)) : DataRows(file)[j][1] = id => i <= j
C8_MasCaroPrimeroEnEmpate ==
  DespuesDeMasCaro =>
    IF productos_data = <<>>
    THEN res_caro = [nombre |-> NA, precio |-> 0]
    ELSE \E k \in 1..Len(productos_data) :
           LET e == productos_data[k] IN
             /\ res_caro = [nombre |-> e.nombre, precio |-> e.precio]
             /\ \A o \in 1..Len(productos_data) :
                  /\ productos_data[o].precio <= e.precio
                  /\ productos_data[o].precio = e.precio =>
                       PrimeraFila(productos_csv, e.id)
                         <= PrimeraFila(productos_csv, productos_data[o].id)
C8_Witness ==
  /\ DespuesDeMasCaro
  /\ \E a, b \in 1..Len(productos_data) :
       /\ a < b
       /\ productos_data[a].precio = res_caro.precio
       /\ productos_data[b].precio = res_caro.precio
       /\ productos_data[a].nombre # productos_data[b].nombre
       /\ res_caro.nombre = productos_data[a].nombre

(* C9: when items.csv is read without error productoConMasIngresos        *)
(* returns the (name, revenue) of the known product of maximal accumulated *)
(* revenue (sum over its rows of mapping price times quantity); among      *)
(* products of equal maximal revenue, the one whose first row is earliest; *)
(* ("N/A", 0) when no row referenced a known product.                      *)
LeidoSinError(file) ==
  /\ Legible(file)
  /\ \A i \in 1..Len(DataRows(file)) :
       Len(DataRows(file)[i]) >= 3 => ParseInt(DataRows(file)[i][3]).ok
FilasDe(productos, file, id) ==
  {i \in 1..Len(DataRows(file)) :
     Len(DataRows(file)[i]) >= 3 /\ DataRows(file)[i][2] = id}
IngresoDe(productos, file, id) ==
  SumaSobre([i \in 1..Len(DataRows(file)) |->
               DictGet(productos, id).precio * ParseInt(DataRows(file)[i][3]).val],
            FilasDe(productos, file, id))
Primera(S) == CHOOSE i \in S : \A j \in S : i <= j
Vendidos(productos, file) ==
  {id \in DictKeys(productos) : FilasDe(productos, file, id) # {}}
C9_MasIngresosPrimeroEnEmpate ==
  (DespuesDeMasIngresos /\ LeidoSinError(items_csv)) =>
    LET V == Vendidos(productos_data, items_csv) IN
    IF V = {}
    THEN EsNA(res_ingresos)
    ELSE \E id \in V :
           /\ res_ingresos.nombre = DictGet(productos_data, id).nombre
           /\ res_ingresos.ingreso = IngresoDe(productos_data, items_csv, id)
           /\ \A o \in V :
                /\ IngresoDe(productos_data, items_csv, o)
                     <= IngresoDe(productos_data, items_csv, id)
                /\ IngresoDe(productos_data, items_csv, o)
                     = IngresoDe(productos_data, items_csv, id)
                   => Primera(FilasDe(productos_data, items_csv, id))
                        <= Primera(FilasDe(productos_data, items_csv, o))
C9_Witness ==
  /\ DespuesDeMasIngresos
  /\ LeidoSinError(items_csv)
  /\ \E a, b \in Vendidos(productos_data, items_csv) :
       /\ a # b
       /\ IngresoDe(productos_data, items_csv, a)
            = IngresoDe(productos_data, items_csv, b)
       /\ Cardinality(FilasDe(productos_data, items_csv, b)) >= 2
       /\ res_ingresos.ingreso = IngresoDe(productos_data, items_csv, a)
       /\ res_ingresos.ingreso > 0

(* C10: however many times generar_informe_completo has run on unchanged   *)
(* input files, the report file holds the content of a single run: each    *)
(* run overwrites it, and the content depends only on the three input      *)
(* files and the configured month and year, not on what the report file    *)
(* held before.                                                            *)
ContenidoEsperado ==
  LET p == _cargar_productos(productos_csv).productos IN
    ContenidoInforme(productoMasCaro(p).nombre, valorTotalBodega(p),
                     productoConMasIngresos(p, items_csv).nombre,
                     totalVentasPeriodo(ventas_csv, MES_REPORTE, ANIO_REPORTE).total)
C10_InformeSoloDependeDeEntradas ==
  (pc \in {"done", "crashed"} /\ informe_io = "ok") =>
    informe = [exists |-> TRUE, content |-> ContenidoEsperado]

====
